---------------------------- MODULE Spec2Model ----------------------------
(***************************************************************************)
(* Model of the dbt tools of dbt_data_scientist:                           *)
(*   tools/dbt_translate.py   _search_for_files, dbt_translate,            *)
(*                            dbt_identify_translation_candidates          *)
(*   sub_agents/dbt_model_analyzer.py   analyze_dbt_schema                 *)
(*   tools/dbt_compile.py     dbt_compile                                  *)
(*                                                                         *)
(* Strings are sequences of one-character strings, so that lower(),        *)
(* replace(), substring tests, path joining and sorting are computed the   *)
(* way Python computes them.  The content of a SQL source file is a         *)
(* sequence of tokens, the content of a compiled file is character text.   *)
(***************************************************************************)
EXTENDS Integers, Sequences, FiniteSets, TLC

(***************************************************************************)
(* Characters and Python string primitives                                 *)
(***************************************************************************)

\* The characters in code point order
\* (' ' < ',' < '.' < '/' < digits < upper case < '_' < lower case).
CharOrder ==
    <<" ", ",", ".", "/", "0", "1", "2", "3", "4", "5", "6", "7", "8", "9",
      "A", "B", "C", "D", "E", "F", "G", "H", "I", "J", "K", "L", "M",
      "N", "O", "P", "Q", "R", "S", "T", "U", "V", "W", "X", "Y", "Z",
      "_",
      "a", "b", "c", "d", "e", "f", "g", "h", "i", "j", "k", "l", "m",
      "n", "o", "p", "q", "r", "s", "t", "u", "v", "w", "x", "y", "z">>

Chars == {CharOrder[i] : i \in 1..Len(CharOrder)}

\* ord(c), up to an order-preserving renumbering
Ord == [c \in Chars |-> CHOOSE i \in 1..Len(CharOrder) : CharOrder[i] = c]

\* str.lower() on one character: 'A'..'Z' map to 'a'..'z'
LowerChar == [c \in Chars |-> IF Ord[c] >= Ord["A"] /\ Ord[c] <= Ord["Z"]
                              THEN CharOrder[Ord[c] - Ord["A"] + Ord["a"]] ELSE c]

\* str.lower()
Lower(s) == [i \in 1..Len(s) |-> LowerChar[s[i]]]

\* s[n:] for 0 <= n
DropFirst(s, n) == IF n >= Len(s) THEN <<>> ELSE SubSeq(s, n + 1, Len(s))

\* s.startswith(p)
StartsWith(s, p) == Len(p) <= Len(s) /\ SubSeq(s, 1, Len(p)) = p

\* s.endswith(p)
EndsWith(s, p) == Len(p) <= Len(s) /\ SubSeq(s, Len(s) - Len(p) + 1, Len(s)) = p

\* p in s  (substring test; the empty string is in every string)
Contains(s, p) ==
    \E i \in 0..(Len(s) - Len(p)) : SubSeq(s, i + 1, i + Len(p)) = p

\* s.replace(old, ''): non-overlapping occurrences removed in one left-to-right pass
RECURSIVE RemoveAll(_, _)
RemoveAll(s, old) ==
    IF Len(s) < Len(old) \/ old = <<>> THEN s
    ELSE IF StartsWith(s, old) THEN RemoveAll(DropFirst(s, Len(old)), old)
    ELSE <<Head(s)>> \o RemoveAll(Tail(s), old)

\* s < t in Python's string order (code point lexicographic, a prefix first)
RECURSIVE StrLess(_, _)
StrLess(s, t) ==
    IF t = <<>> THEN FALSE
    ELSE IF s = <<>> THEN TRUE
    ELSE IF Head(s) = Head(t) THEN StrLess(Tail(s), Tail(t))
    ELSE Ord[Head(s)] < Ord[Head(t)]

\* sorted(set): the ascending list of a finite set of strings
RECURSIVE SortedList(_)
SortedList(S) ==
    IF S = {} THEN <<>>
    ELSE LET m == CHOOSE x \in S : \A y \in S \ {x} : StrLess(x, y)
         IN  <<m>> \o SortedList(S \ {m})

\* the elements of a list, as a set
Range(q) == {q[i] : i \in 1..Len(q)}

\* q[:n]
\* the slice without its bound: the whole list
Take_All(q, n) == q

Take(q, n) == IF n >= Len(q) THEN q ELSE SubSeq(q, 1, n)

(***************************************************************************)
(* pathlib                                                                 *)
(***************************************************************************)
Slash == <<"/">>
DotSql == <<".", "s", "q", "l">>

\* the pieces of s between '/' characters (str.split('/'))
RECURSIVE SplitFrom(_, _)
SplitFrom(s, cur) ==
    IF s = <<>> THEN <<cur>>
    ELSE IF Head(s) = "/" THEN <<cur>> \o SplitFrom(Tail(s), <<>>)
    ELSE SplitFrom(Tail(s), Append(cur, Head(s)))

\* Path(s).parts without the root: empty and '.' components are dropped by pathlib
Parts(s) == SelectSeq(SplitFrom(s, <<>>), LAMBDA c : c # <<>> /\ c # <<".">>)

IsAbsolute(s) == s # <<>> /\ Head(s) = "/"

\* '/'.join(parts)
RECURSIVE JoinParts(_)
JoinParts(ps) ==
    IF ps = <<>> THEN <<>>
    ELSE IF Len(ps) = 1 THEN ps[1]
    ELSE ps[1] \o Slash \o JoinParts(Tail(ps))

\* str(Path(s)): pathlib's normal form ('//' and '/./' collapsed, '..' kept)
PathStr(s) ==
    IF IsAbsolute(s) THEN Slash \o JoinParts(Parts(s))
    ELSE IF Parts(s) = <<>> THEN <<".">>
    ELSE JoinParts(Parts(s))

\* Path(a) / b : an absolute right operand replaces the left one
PathJoin(a, b) == IF IsAbsolute(b) THEN PathStr(b) ELSE PathStr(a \o Slash \o b)

\* Path(s).name
PathName(s) == IF Parts(s) = <<>> THEN <<>> ELSE Parts(s)[Len(Parts(s))]

\* Path(s).stem for a name that has a suffix: the name without its last suffix
RECURSIVE LastDot(_)
LastDot(n) == IF n = <<>> THEN 0
              ELSE IF n[Len(n)] = "." THEN Len(n)
              ELSE LastDot(SubSeq(n, 1, Len(n) - 1))

PathStem(s) ==
    LET n == PathName(s) d == LastDot(n)
    IN  IF d <= 1 \/ d = Len(n) THEN n ELSE SubSeq(n, 1, d - 1)

\* what the operating system makes of a path: '..' climbs one directory
RECURSIVE Climb(_, _)
Climb(ps, acc) ==
    IF ps = <<>> THEN acc
    ELSE IF Head(ps) = <<".", ".">>
         THEN Climb(Tail(ps), IF acc = <<>> THEN acc ELSE SubSeq(acc, 1, Len(acc) - 1))
    ELSE Climb(Tail(ps), Append(acc, Head(ps)))

\* the absolute file-system location a path string names
OsResolve(s) == Slash \o JoinParts(Climb(Parts(s), <<>>))

\* p lies inside directory d (both resolved locations)
IsUnder(p, d) == StartsWith(p, d \o Slash)

\* Path.relative_to(base) of a location under base
RelativeTo(p, base) == DropFirst(p, Len(base) + 1)

(***************************************************************************)
(* Directory names and project roots                                       *)
(***************************************************************************)
\* 'models'
S_models == <<"m", "o", "d", "e", "l", "s">>

\* 'macros'
S_macros == <<"m", "a", "c", "r", "o", "s">>

\* 'analyses'
S_analyses == <<"a", "n", "a", "l", "y", "s", "e", "s">>

\* 'tests'
S_tests == <<"t", "e", "s", "t", "s">>

\* 'translated'
S_translated == <<"t", "r", "a", "n", "s", "l", "a", "t", "e", "d">>

\* 'target'
S_target == <<"t", "a", "r", "g", "e", "t">>

\* 'compiled'
S_compiled == <<"c", "o", "m", "p", "i", "l", "e", "d">>

\* '/p'
RootP == <<"/", "p">>

\* '/q'
RootQ == <<"/", "q">>

(***************************************************************************)
(* The files a project tree is drawn from                                  *)
(***************************************************************************)
\* '/p/models/staging/stg_users.sql'
F_stg_users == <<"/", "p", "/", "m", "o", "d", "e", "l", "s", "/", "s", "t",
    "a", "g", "i", "n", "g", "/", "s", "t", "g", "_", "u", "s", "e", "r",
    "s", ".", "s", "q", "l">>

\* '/p/models/users_snapshot.sql'
F_users_snapshot == <<"/", "p", "/", "m", "o", "d", "e", "l", "s", "/", "u",
    "s", "e", "r", "s", "_", "s", "n", "a", "p", "s", "h", "o", "t", ".",
    "s", "q", "l">>

\* '/p/models/Marts/Dim_Users.sql'
F_Dim_Users == <<"/", "p", "/", "m", "o", "d", "e", "l", "s", "/", "M", "a",
    "r", "t", "s", "/", "D", "i", "m", "_", "U", "s", "e", "r", "s", ".",
    "s", "q", "l">>

\* '/p/macros/cents_to_dollars.sql'
F_cents == <<"/", "p", "/", "m", "a", "c", "r", "o", "s", "/", "c", "e", "n",
    "t", "s", "_", "t", "o", "_", "d", "o", "l", "l", "a", "r", "s", ".",
    "s", "q", "l">>

\* '/p/tests/t1.sql'
F_test == <<"/", "p", "/", "t", "e", "s", "t", "s", "/", "t", "1", ".", "s",
    "q", "l">>

\* '/p/seeds/users.sql'
F_seed == <<"/", "p", "/", "s", "e", "e", "d", "s", "/", "u", "s", "e", "r",
    "s", ".", "s", "q", "l">>

\* '/p/models/readme.md'
F_readme == <<"/", "p", "/", "m", "o", "d", "e", "l", "s", "/", "r", "e",
    "a", "d", "m", "e", ".", "m", "d">>

\* '/q/models/users.sql'
F_q_users == <<"/", "q", "/", "m", "o", "d", "e", "l", "s", "/", "u", "s",
    "e", "r", "s", ".", "s", "q", "l">>

\* '/p/target/compiled/dim_customers.sql'
G_dim_customers == <<"/", "p", "/", "t", "a", "r", "g", "e", "t", "/", "c",
    "o", "m", "p", "i", "l", "e", "d", "/", "d", "i", "m", "_", "c", "u",
    "s", "t", "o", "m", "e", "r", "s", ".", "s", "q", "l">>

\* '/p/target/compiled/m/fact_orders.sql'
G_fact_orders == <<"/", "p", "/", "t", "a", "r", "g", "e", "t", "/", "c",
    "o", "m", "p", "i", "l", "e", "d", "/", "m", "/", "f", "a", "c", "t",
    "_", "o", "r", "d", "e", "r", "s", ".", "s", "q", "l">>

\* '/p/target/compiled/hub_a.sql'
G_hub == <<"/", "p", "/", "t", "a", "r", "g", "e", "t", "/", "c", "o", "m",
    "p", "i", "l", "e", "d", "/", "h", "u", "b", "_", "a", ".", "s", "q",
    "l">>

\* '/p/target/compiled/notes.txt'
G_notes == <<"/", "p", "/", "t", "a", "r", "g", "e", "t", "/", "c", "o", "m",
    "p", "i", "l", "e", "d", "/", "n", "o", "t", "e", "s", ".", "t", "x",
    "t">>

\* '/p/models/u'
BigPrefix == <<"/", "p", "/", "m", "o", "d", "e", "l", "s", "/", "u">>

(***************************************************************************)
(* Caller-supplied file_path / search_term values                          *)
(***************************************************************************)
\* 'users'
T_users == <<"u", "s", "e", "r", "s">>

\* 'cents_to_dollars'
T_cents == <<"c", "e", "n", "t", "s", "_", "t", "o", "_", "d", "o", "l", "l",
    "a", "r", "s">>

\* 'stg_users.sql'
T_stg_sql == <<"s", "t", "g", "_", "u", "s", "e", "r", "s", ".", "s", "q",
    "l">>

\* 'models/staging/stg_users.sql'
T_exact == <<"m", "o", "d", "e", "l", "s", "/", "s", "t", "a", "g", "i", "n",
    "g", "/", "s", "t", "g", "_", "u", "s", "e", "r", "s", ".", "s", "q",
    "l">>

\* 'nothing'
T_none == <<"n", "o", "t", "h", "i", "n", "g">>

\* 'x/users'
T_xusers == <<"x", "/", "u", "s", "e", "r", "s">>

\* 'stg.sql_users'
T_midsql == <<"s", "t", "g", ".", "s", "q", "l", "_", "u", "s", "e", "r",
    "s">>

\* 'marts/'
T_marts == <<"m", "a", "r", "t", "s", "/">>

\* 'u'
T_u == <<"u">>

\* '/p/models/users_snapshot.sql'
T_abs == <<"/", "p", "/", "m", "o", "d", "e", "l", "s", "/", "u", "s", "e",
    "r", "s", "_", "s", "n", "a", "p", "s", "h", "o", "t", ".", "s", "q",
    "l">>

\* '../q/models/users.sql'
T_up == <<".", ".", "/", "q", "/", "m", "o", "d", "e", "l", "s", "/", "u",
    "s", "e", "r", "s", ".", "s", "q", "l">>

\* 'models'
T_dir == <<"m", "o", "d", "e", "l", "s">>

(***************************************************************************)
(* Caller-supplied warehouse tags                                          *)
(***************************************************************************)
\* 'snowflake'
W_snowflake == <<"s", "n", "o", "w", "f", "l", "a", "k", "e">>

\* 'bigquery'
W_bigquery == <<"b", "i", "g", "q", "u", "e", "r", "y">>

\* 'redshift'
W_redshift == <<"r", "e", "d", "s", "h", "i", "f", "t">>

\* 'postgres'
W_postgres == <<"p", "o", "s", "t", "g", "r", "e", "s">>

\* 'oracle'
W_oracle == <<"o", "r", "a", "c", "l", "e">>

\* 'SNOWFLAKE'
W_SNOWFLAKE == <<"S", "N", "O", "W", "F", "L", "A", "K", "E">>

(***************************************************************************)
(* Compiled SQL texts read by analyze_dbt_schema                           *)
(***************************************************************************)
\* 'select a from DIM_c'
X_dim == <<"s", "e", "l", "e", "c", "t", " ", "a", " ", "f", "r", "o", "m",
    " ", "D", "I", "M", "_", "c">>

\* 'from fact_o join d on k'
X_fact == <<"f", "r", "o", "m", " ", "f", "a", "c", "t", "_", "o", " ", "j",
    "o", "i", "n", " ", "d", " ", "o", "n", " ", "k">>

\* 'from hub_a, bridge_b'
X_hub == <<"f", "r", "o", "m", " ", "h", "u", "b", "_", "a", ",", " ", "b",
    "r", "i", "d", "g", "e", "_", "b">>

\* 'select 1'
X_plain == <<"s", "e", "l", "e", "c", "t", " ", "1">>

(***************************************************************************)
(* The file system the tools run against                                   *)
(***************************************************************************)

\* Number of files models/u<c>.sql of the large project (more than the 10
\* suggestions dbt_translate shows).
NumBig == 11

\* /p/models/u0.sql, /p/models/u1.sql, ...
BigFiles == {BigPrefix \o <<CharOrder[4 + i]>> \o DotSql : i \in 1..NumBig}

\* SQL sources are sequences of tokens; compiled SQL is character text.
SourceText(f) ==
    CASE f = F_stg_users      -> <<"SELECT", "IFF(", "FLATTEN(">>
      [] f = F_users_snapshot -> <<"select", "iff(">>
      [] f = F_Dim_Users      -> <<"SELECT", "::VARIANT", "LATERAL FLATTEN(">>
      [] f = F_cents          -> <<"SELECT">>
      [] f = F_test           -> <<"DATEDIFF(", "x::int">>
      [] f = F_seed           -> <<"IFF(">>
      [] f = F_readme         -> <<"IFF(">>
      [] f = F_q_users        -> <<"SELECT", "UNNEST(">>
      [] f = G_dim_customers  -> X_dim
      [] f = G_fact_orders    -> X_fact
      [] f = G_hub            -> X_hub
      [] f = G_notes          -> X_dim
      [] f \in BigFiles       -> IF f[Len(BigPrefix) + 1] \in {"0", "2", "4"}
                                 THEN <<"IFF(", "$1">> ELSE <<"iff(">>
      [] OTHER                -> <<>>

\* the project trees a run starts from (the file outside /p is always there)
TreeEmpty == {F_q_users}
TreeCore == {F_stg_users, F_users_snapshot, F_Dim_Users, F_cents, F_test, F_seed,
             F_readme, F_q_users, G_dim_customers, G_fact_orders, G_hub, G_notes}
TreeSingle == {F_stg_users, F_cents, F_q_users, G_dim_customers, G_notes}
TreeBig == BigFiles \cup {F_cents, F_q_users, G_hub}
Trees == {TreeEmpty, TreeCore, TreeSingle, TreeBig}

\* every directory above a location, the root '/' excluded
Ancestors(p) ==
    LET ps == Parts(p)
    IN  {Slash \o JoinParts(SubSeq(ps, 1, n)) : n \in 1..(Len(ps) - 1)}

Reverse(q) == [i \in 1..Len(q) |-> q[Len(q) + 1 - i]]

VARIABLES
    envRoot,    \* os.getenv("DBT_PROJECT_LOCATION")
    files,      \* the regular files: location -> text
    dirs,       \* the directories
    listing,    \* the order in which the file system enumerates the files
    before,     \* the files and directories as they were when the tool was called
    op,         \* the tool that was called ("none" before the call)
    args,       \* its arguments and what the environment did during the call
    outcome,    \* "returned" or "raised"
    result,     \* the returned record (the exception, when raised)
    io,         \* the I/O the call performed, in order
    history,    \* the calls and file system changes of a session, oldest first
    procs       \* the dbt_translate invocations that run concurrently

vars == <<envRoot, files, dirs, listing, before, op, args, outcome, result, io,
          history, procs>>

Init ==
    /\ envRoot = RootP
    /\ \E t \in Trees :
         /\ files = [f \in t |-> SourceText(f)]
         /\ dirs = {RootP, RootQ} \cup UNION {Ancestors(f) : f \in t}
         /\ listing \in {SortedList(t), Reverse(SortedList(t))}
    /\ before = [files |-> files, dirs |-> dirs]
    /\ op = "none"
    /\ args = <<>>
    /\ outcome = "none"
    /\ result = <<>>
    /\ io = <<>>
    /\ history = <<>>
    /\ procs = <<>>

Exists(p) == p \in DOMAIN files \/ p \in dirs

Event(e, p) == [ev |-> e, path |-> p]

(***************************************************************************)
(* _search_for_files  (dbt_translate.py:54-102)                            *)
(***************************************************************************)
search_dirs == <<S_models, S_macros, S_analyses, S_tests>>

\* dir_path.rglob('*' + ext): the files below dir_path whose name ends with ext
Rglob(dir_path, ext) ==
    SelectSeq(listing, LAMBDA f : IsUnder(f, dir_path) /\ EndsWith(PathName(f), ext))

\* lines 93-100 without the test of the file name taken from the term
FileMatches_NoFilename(search_filename, search_clean, rel_path) ==
    LET file_name_clean == Lower(PathStem(rel_path))
    IN  \/ search_clean = file_name_clean \/ Contains(file_name_clean, search_clean)
        \/ Contains(Lower(rel_path), search_clean)

\* the if / elif / elif of lines 93-100
FileMatches(search_filename, search_clean, rel_path) ==
    LET file_name_clean == Lower(PathStem(rel_path))
    IN  \/ search_filename = file_name_clean \/ Contains(file_name_clean, search_filename)
        \/ search_clean = file_name_clean \/ Contains(file_name_clean, search_clean)
        \/ Contains(Lower(rel_path), search_clean)

\* the matches list built by the loops of lines 81-100
RECURSIVE WalkDirs(_, _, _, _)
WalkDirs(dbt_path, k, search_filename, search_clean) ==
    IF k > Len(search_dirs) THEN <<>>
    ELSE LET dir_path == PathJoin(dbt_path, search_dirs[k])
             found == IF ~Exists(OsResolve(dir_path)) THEN <<>>
                      ELSE SelectSeq(Rglob(OsResolve(dir_path), DotSql),
                                     LAMBDA f : FileMatches(search_filename, search_clean,
                                                            RelativeTo(f, dbt_path)))
         IN  [i \in 1..Len(found) |-> RelativeTo(found[i], dbt_path)]
             \o WalkDirs(dbt_path, k + 1, search_filename, search_clean)

\* _search_for_files(dbt_root, search_term): dbt_root is not read, the root is
\* taken from the environment (line 71)
SearchForFilesIn(root, search_term) ==
    LET search_clean == RemoveAll(Lower(search_term), DotSql)
        search_filename == RemoveAll(Lower(PathName(search_term)), DotSql)
        matches == WalkDirs(root, 1, search_filename, search_clean)
    IN  SortedList(Range(matches))

\* a resolver that keeps the result of the first call for a term
_search_for_files_Cached(dbt_root, search_term) ==
    LET earlier == {i \in 1..Len(history) :
                       /\ history[i].op = "_search_for_files"
                       /\ history[i].args.search_term = search_term}
    IN  IF earlier = {} THEN SearchForFilesIn(envRoot, search_term)
        ELSE history[CHOOSE i \in earlier : \A j \in earlier : i <= j].result

_search_for_files(dbt_root, search_term) == SearchForFilesIn(envRoot, search_term)

SearchTerms == {T_users, T_cents, T_stg_sql, T_exact, T_none, T_xusers, T_midsql,
                T_marts, T_u, T_abs, T_up, T_dir, <<>>}

\* a direct call of the resolver
SearchForFiles ==
    /\ op = "none"
    /\ \E dbt_root \in {RootP, RootQ}, search_term \in SearchTerms :
         /\ args' = [dbt_root |-> dbt_root, search_term |-> search_term]
         /\ result' = _search_for_files(dbt_root, search_term)
    /\ op' = "_search_for_files"
    /\ outcome' = "returned"
    /\ io' = <<>>
    /\ UNCHANGED <<envRoot, files, dirs, listing, before, history, procs>>

(***************************************************************************)
(* dbt_translate  (dbt_translate.py:105-231)                               *)
(***************************************************************************)

\* Python's None and a present value
None == <<>>
Some(x) == <<x>>

\* texts the translation collaborator can return
Text1 == <<"SELECT", "IF(">>
Text2 == <<"SELECT", "IF(", "UNNEST(">>

\* what the environment does during one call: whether open(source_file)
\* fails, what client.models.generate_content does (raises, or returns a
\* response whose .text is a text or None), whether mkdir, open(translated_file,
\* 'w') and f.write fail.  A step that is not reached has no outcome: its
\* field keeps the default.
TranslateEnvs ==
    {e \in [read_fails : BOOLEAN,
            collab_raises : BOOLEAN,
            collab_text : {None, Some(Text1), Some(Text2)},
            mkdir_fails : BOOLEAN,
            open_fails : BOOLEAN,
            write_fails : BOOLEAN] :
        /\ e.read_fails => ~e.collab_raises
        /\ (e.read_fails \/ e.collab_raises) => e.collab_text = None /\ ~e.mkdir_fails
        /\ (e.read_fails \/ e.collab_raises \/ e.mkdir_fails) => ~e.open_fails
        /\ (e.read_fails \/ e.collab_raises \/ e.mkdir_fails \/ e.open_fails)
              => ~e.write_fails}

\* suggestions[:10] (lines 160, 166)
MaxSuggestions == 10

\* lines 131-171 with the ambiguity branch lost: the first of several matches
\* is substituted like a single one
Resolving_FirstMatch(file_path) ==
    LET source_file == PathJoin(envRoot, file_path)
        probe == <<Event("exists", source_file)>>
        suggestions == _search_for_files(envRoot, file_path)
        walked == Append(probe, Event("walk", envRoot))
    IN  IF Exists(OsResolve(source_file))
        THEN [kind |-> "Found", actual_file_path |-> file_path,
              source_file |-> source_file, io |-> probe, result |-> <<>>]
        ELSE IF suggestions = <<>>
        THEN [kind |-> "NotFound", actual_file_path |-> file_path,
              source_file |-> source_file, io |-> walked,
              result |->
                [status |-> "error",
                 message |-> [text |-> "File not found at '{file_path}'. No similar files found in the dbt project. Please provide the full path relative to the dbt project root.",
                              file_path |-> file_path],
                 translated_content |-> None,
                 saved_path |-> None,
                 suggestions |-> <<>>]]
        ELSE [kind |-> "Found", actual_file_path |-> suggestions[1],
              source_file |-> PathJoin(envRoot, suggestions[1]),
              io |-> walked, result |-> <<>>]

\* lines 131-171: the exact path, else the resolver.
\* kind is "Found" (with actual_file_path and source_file) or the returned record
Resolving(file_path) ==
    LET source_file == PathJoin(envRoot, file_path)
        probe == <<Event("exists", source_file)>>
    IN  IF Exists(OsResolve(source_file))
        THEN [kind |-> "Found", actual_file_path |-> file_path,
              source_file |-> source_file, io |-> probe, result |-> <<>>]
        ELSE
        LET suggestions == _search_for_files(envRoot, file_path)
            walked == Append(probe, Event("walk", envRoot))
        IN  IF suggestions = <<>>
            THEN [kind |-> "NotFound", actual_file_path |-> file_path,
                  source_file |-> source_file, io |-> walked,
                  result |->
                    [status |-> "error",
                     message |-> [text |-> "File not found at '{file_path}'. No similar files found in the dbt project. Please provide the full path relative to the dbt project root.",
                                  file_path |-> file_path],
                     translated_content |-> None,
                     saved_path |-> None,
                     suggestions |-> <<>>]]
            ELSE IF Len(suggestions) = 1
            THEN [kind |-> "Found", actual_file_path |-> suggestions[1],
                  source_file |-> PathJoin(envRoot, suggestions[1]),
                  io |-> walked, result |-> <<>>]
            ELSE [kind |-> "Ambiguous", actual_file_path |-> file_path,
                  source_file |-> source_file, io |-> walked,
                  result |->
                    [status |-> "clarification_needed",
                     message |-> [text |-> "File not found at exact path '{file_path}'. Found {len(suggestions)} possible matches:{suggestions_list} Please specify which file you want to translate using the full path from the list above.",
                                  file_path |-> file_path,
                                  count |-> Len(suggestions),
                                  suggestions_list |-> Take(suggestions, MaxSuggestions)],
                     translated_content |-> None,
                     saved_path |-> None,
                     suggestions |-> Take(suggestions, MaxSuggestions),
                     original_path |-> file_path]]

\* the directories Path.mkdir(parents=True, exist_ok=True) leaves behind for a
\* path string: every prefix of it, as the operating system resolves it
MkdirCreates(p) ==
    LET ps == Parts(p)
    IN  {OsResolve(Slash \o JoinParts(SubSeq(ps, 1, n))) : n \in 1..Len(ps)}

\* Path(s).parent of an absolute path string
PathParent(s) ==
    LET ps == Parts(s)
    IN  IF ps = <<>> THEN Slash ELSE Slash \o JoinParts(SubSeq(ps, 1, Len(ps) - 1))

\* a run of a tool: how it ended and the file system it left
Run(o, r, f, d, l, e) ==
    [outcome |-> o, result |-> r, files |-> f, dirs |-> d, listing |-> l, io |-> e]

\* the file system after open(loc, 'a') and f.write(text): the text is added
\* to what the file holds
WriteFile_Append(loc, text) ==
    [f \in DOMAIN files \cup {loc} |->
        IF f # loc THEN files[f]
        ELSE IF loc \in DOMAIN files THEN files[loc] \o text ELSE text]

\* the file system after open(loc, 'w') and f.write(text) of a text
WriteFile(loc, text) == [f \in DOMAIN files \cup {loc} |-> IF f = loc THEN text ELSE files[f]]

ListingWith(loc) == IF loc \in DOMAIN files THEN listing ELSE Append(listing, loc)

\* lines 173-231, entered with the outcome rs of lines 131-171 when rs.kind = "Found"
TranslateFound(rs, file_path, source_warehouse, target_warehouse, env) ==
    LET actual_file_path == rs.actual_file_path
        source_file == rs.source_file
        src_loc == OsResolve(source_file)
        io1 == Append(rs.io, Event("read", source_file))
        read_ok == src_loc \in DOMAIN files /\ ~env.read_fails
        io2 == Append(io1, Event("translate", <<>>))
        translated_content == env.collab_text
        translated_dir == PathJoin(PathJoin(envRoot, S_translated), target_warehouse)
        translated_file == PathJoin(translated_dir, actual_file_path)
        parent == PathParent(translated_file)
        out_loc == OsResolve(translated_file)
        io3 == Append(io2, Event("mkdir", parent))
        mkdir_ok == ~env.mkdir_fails /\ MkdirCreates(parent) \cap DOMAIN files = {}
        dirs3 == dirs \cup MkdirCreates(parent)
        io4 == Append(io3, Event("open", translated_file))
        open_ok == ~env.open_fails /\ out_loc \notin dirs3
        io5 == Append(io4, Event("write", translated_file))
        write_ok == translated_content # None /\ ~env.write_fails
        write_error == [status |-> "error",
                        message |-> [text |-> "Error writing translated file: {str(e)}"],
                        translated_content |-> translated_content,
                        saved_path |-> None]
    IN  IF ~read_ok
        THEN Run("returned",
                 [status |-> "error",
                  message |-> [text |-> "Error reading file: {str(e)}"],
                  translated_content |-> None,
                  saved_path |-> None],
                 files, dirs, listing, io1)
        ELSE IF env.collab_raises
        THEN Run("returned",
                 [status |-> "error",
                  message |-> [text |-> "Error during translation: {str(e)}"],
                  translated_content |-> None,
                  saved_path |-> None],
                 files, dirs, listing, io2)
        ELSE IF ~mkdir_ok
        THEN Run("raised", [exception |-> "OSError", raised_by |-> "mkdir"],
                 files, dirs, listing, io3)
        ELSE IF ~open_ok
        THEN Run("returned", write_error, files, dirs3, listing, io4)
        ELSE IF ~write_ok
        THEN Run("returned", write_error, WriteFile(out_loc, <<>>), dirs3,
                 ListingWith(out_loc), io5)
        ELSE Run("returned",
                 [status |-> "success",
                  message |-> [text |-> "Successfully translated {actual_file_path} from {source_warehouse} to {target_warehouse}",
                               actual_file_path |-> actual_file_path,
                               source_warehouse |-> source_warehouse,
                               target_warehouse |-> target_warehouse],
                  translated_content |-> translated_content,
                  saved_path |-> Some(translated_file),
                  source_file |-> Some(source_file),
                  original_path |-> IF file_path # actual_file_path
                                    THEN Some(file_path) ELSE None],
                 WriteFile(out_loc, translated_content[1]), dirs3,
                 ListingWith(out_loc), io5)

\* dbt_translate(file_path, source_warehouse, target_warehouse)
dbt_translate(rs, file_path, source_warehouse, target_warehouse, env) ==
    IF rs.kind = "Found"
    THEN TranslateFound(rs, file_path, source_warehouse, target_warehouse, env)
    ELSE Run("returned", rs.result, files, dirs, listing, rs.io)

FilePaths == SearchTerms
SourceTags == {W_snowflake, W_oracle}
TargetTags == {W_bigquery, W_postgres, W_oracle}

\* the environment outcomes that can matter to a run that resolved to rs
EnvsFor(rs) ==
    IF rs.kind = "Found" THEN TranslateEnvs
    ELSE {[read_fails |-> FALSE, collab_raises |-> FALSE, collab_text |-> None,
           mkdir_fails |-> FALSE, open_fails |-> FALSE, write_fails |-> FALSE]}

DbtTranslate ==
    /\ op = "none"
    /\ \E file_path \in FilePaths :
       \E rs \in {Resolving(file_path)} :
       \E source_warehouse \in SourceTags, target_warehouse \in TargetTags,
          env \in EnvsFor(rs) :
       \E r \in {dbt_translate(rs, file_path, source_warehouse, target_warehouse, env)} :
         /\ args' = [file_path |-> file_path,
                     source_warehouse |-> source_warehouse,
                     target_warehouse |-> target_warehouse,
                     env |-> env]
         /\ outcome' = r.outcome
         /\ result' = r.result
         /\ files' = r.files
         /\ dirs' = r.dirs
         /\ listing' = r.listing
         /\ io' = r.io
    /\ op' = "dbt_translate"
    /\ UNCHANGED <<envRoot, before, history, procs>>

(***************************************************************************)
(* dbt_identify_translation_candidates  (dbt_translate.py:234-329)         *)
(***************************************************************************)

\* WAREHOUSE_PATTERNS (lines 11-51): per warehouse, its regular expressions in
\* order (in the BigQuery table-reference expression ~ stands for the backquote)
WAREHOUSE_PATTERNS ==
    (W_snowflake :> <<"\\bIFF\\s*\\(", "\\bFLATTEN\\s*\\(", "\\bLATERAL\\s+FLATTEN",
                      "\\bVARIANT\\b", "\\bQUALIFY\\b", "\\$\\d+", "::\\s*VARIANT",
                      "ARRAY_AGG\\s*\\([^)]*\\)\\s+WITHIN\\s+GROUP">>)
 @@ (W_bigquery  :> <<"\\bSTRUCT\\s*\\(", "\\bARRAY\\s*\\[", "\\bUNNEST\\s*\\(",
                      "\\bSAFE_CAST\\s*\\(", "\\bFORMAT_DATE\\s*\\(",
                      "\\bPARSE_DATE\\s*\\(", "~[^~]+\\.[^~]+\\.[^~]+~",
                      "\\bGENERATE_UUID\\s*\\(">>)
 @@ (W_redshift  :> <<"\\bDISTKEY\\b", "\\bSORTKEY\\b", "\\bCOPY\\s+", "\\bUNLOAD\\s+",
                      "\\bLISTAGG\\s*\\(", "\\bDATEADD\\s*\\(", "\\bDATEDIFF\\s*\\(",
                      "\\bGETDATE\\s*\\(">>)
 @@ (W_postgres  :> <<"::\\s*\\w+", "\\bGENERATE_SERIES\\s*\\(", "\\bARRAY_AGG\\s*\\(",
                      "\\bSTRING_AGG\\s*\\(", "\\bREGEXP_MATCHES\\s*\\(", "\\bJSONB\\b",
                      "\\bCROSSTAB\\s*\\(">>)

\* the expressions re.search finds, with re.IGNORECASE, in one token of SQL
TokenHits(token) ==
    CASE token \in {"IFF(", "iff("}    -> {"\\bIFF\\s*\\("}
      [] token = "FLATTEN("            -> {"\\bFLATTEN\\s*\\("}
      [] token = "LATERAL FLATTEN("    -> {"\\bFLATTEN\\s*\\(", "\\bLATERAL\\s+FLATTEN"}
      [] token = "::VARIANT"           -> {"\\bVARIANT\\b", "::\\s*VARIANT", "::\\s*\\w+"}
      [] token = "$1"                  -> {"\\$\\d+"}
      [] token = "DATEDIFF("           -> {"\\bDATEDIFF\\s*\\("}
      [] token = "x::int"              -> {"::\\s*\\w+"}
      [] token = "UNNEST("             -> {"\\bUNNEST\\s*\\("}
      [] OTHER                         -> {}

\* pattern.search(content) (line 288)
PatternSearch(pattern, content) ==
    \E i \in 1..Len(content) : pattern \in TokenHits(content[i])

\* line 290 giving every expression of a function call the same description
PatternDesc_CallOnly(pattern) ==
    IF pattern \in {"\\bIFF\\s*\\(", "\\bFLATTEN\\s*\\("} THEN "function call" ELSE pattern

\* line 290: no expression of WAREHOUSE_PATTERNS holds a '#', so the
\* description of a pattern is the pattern
PatternDesc(pattern) == pattern

\* lines 286-291: one entry per pattern that matches, in pattern order
DetectedPatterns(patterns, content) ==
    LET hit == SelectSeq(patterns, LAMBDA p : PatternSearch(p, content))
    IN  [i \in 1..Len(hit) |-> PatternDesc(hit[i])]

\* lines 280-304 with the except clause ending the scan instead of continuing
RECURSIVE ScanFiles_AbortOnError(_, _, _, _)
ScanFiles_AbortOnError(sql_files, dbt_path, patterns, unreadable) ==
    IF sql_files = <<>> THEN <<>>
    ELSE LET sql_file == Head(sql_files)
             rest == ScanFiles_AbortOnError(Tail(sql_files), dbt_path, patterns, unreadable)
             detected_patterns == DetectedPatterns(patterns, files[sql_file])
         IN  IF sql_file \in unreadable THEN <<>>
             ELSE IF detected_patterns = <<>> THEN rest
             ELSE <<[file |-> RelativeTo(sql_file, dbt_path),
                     full_path |-> sql_file,
                     detected_syntax |-> Range(detected_patterns),
                     pattern_count |-> Len(detected_patterns)]>> \o rest

\* lines 280-304 for the .sql files of the project, in enumeration order:
\* a file whose open() or read() fails is skipped (lines 302-304)
RECURSIVE ScanFiles(_, _, _, _)
ScanFiles(sql_files, dbt_path, patterns, unreadable) ==
    IF sql_files = <<>> THEN <<>>
    ELSE LET sql_file == Head(sql_files)
             rest == ScanFiles(Tail(sql_files), dbt_path, patterns, unreadable)
             detected_patterns == DetectedPatterns(patterns, files[sql_file])
         IN  IF sql_file \in unreadable THEN rest
             ELSE IF detected_patterns = <<>> THEN rest
             ELSE <<[file |-> RelativeTo(sql_file, dbt_path),
                     full_path |-> sql_file,
                     detected_syntax |-> Range(detected_patterns),
                     pattern_count |-> Len(detected_patterns)]>> \o rest

\* lines 274-280: the .sql files the scan opens, the four directories in order
RECURSIVE SqlFilesOf(_, _)
SqlFilesOf(dbt_path, k) ==
    IF k > Len(search_dirs) THEN <<>>
    ELSE LET dir_path == OsResolve(PathJoin(dbt_path, search_dirs[k]))
         IN  (IF ~Exists(dir_path) THEN <<>> ELSE Rglob(dir_path, DotSql))
             \o SqlFilesOf(dbt_path, k + 1)

\* a sort that puts the later of two equal counts first
RECURSIVE InsertByCount_TiesFirst(_, _)
InsertByCount_TiesFirst(sorted, c) ==
    IF sorted = <<>> THEN <<c>>
    ELSE IF Head(sorted).pattern_count > c.pattern_count
         THEN <<Head(sorted)>> \o InsertByCount_TiesFirst(Tail(sorted), c)
    ELSE <<c>> \o sorted

\* list.sort(key=pattern_count, reverse=True) (line 307): stable, so equal
\* counts keep their order
RECURSIVE InsertByCount(_, _)
InsertByCount(sorted, c) ==
    IF sorted = <<>> THEN <<c>>
    ELSE IF Head(sorted).pattern_count >= c.pattern_count
         THEN <<Head(sorted)>> \o InsertByCount(Tail(sorted), c)
    ELSE <<c>> \o sorted

RECURSIVE SortByCount(_)
SortByCount(cands) ==
    IF cands = <<>> THEN <<>>
    ELSE InsertByCount(SortByCount(SubSeq(cands, 1, Len(cands) - 1)), cands[Len(cands)])

\* the membership test without .lower()
ValidWarehouse_NoLower(source_warehouse) == source_warehouse \in DOMAIN WAREHOUSE_PATTERNS

\* line 258
ValidWarehouse(source_warehouse) == Lower(source_warehouse) \in DOMAIN WAREHOUSE_PATTERNS

\* the error record without its message
UnknownWarehouseResult_NoMessage(source_warehouse) ==
    [status |-> "error", candidates |-> <<>>]

\* lines 259-264
UnknownWarehouseResult(source_warehouse) ==
    [status |-> "error",
     message |-> [text |-> "Unknown source warehouse '{source_warehouse}'. Supported: {', '.join(WAREHOUSE_PATTERNS.keys())}",
                  source_warehouse |-> source_warehouse],
     candidates |-> <<>>]

\* dbt_identify_translation_candidates(source_warehouse, target_warehouse);
\* unreadable: the files whose open() or read() fails during the call
dbt_identify_translation_candidates(source_warehouse, target_warehouse, unreadable) ==
    IF ~ValidWarehouse(source_warehouse)
    THEN Run("returned", UnknownWarehouseResult(source_warehouse),
             files, dirs, listing, <<>>)
    ELSE
    LET patterns == WAREHOUSE_PATTERNS[Lower(source_warehouse)]
        sql_files == SqlFilesOf(envRoot, 1)
        opened == <<Event("walk", envRoot)>>
                  \o [i \in 1..Len(sql_files) |-> Event("read", sql_files[i])]
        candidates == SortByCount(ScanFiles(sql_files, envRoot, patterns, unreadable))
    IN  IF candidates = <<>>
        THEN Run("returned",
                 [status |-> "success",
                  message |-> [text |-> "No {source_warehouse}-specific syntax detected in the dbt project. Your project may already be warehouse-agnostic or using a different warehouse syntax.",
                               source_warehouse |-> source_warehouse],
                  candidates |-> <<>>,
                  source_warehouse |-> source_warehouse,
                  target_warehouse |-> target_warehouse],
                 files, dirs, listing, opened)
        ELSE Run("returned",
                 [status |-> "success",
                  message |-> [text |-> "Found {len(candidates)} file(s) with {source_warehouse}-specific syntax that may need translation{target_msg}.",
                               count |-> Len(candidates),
                               source_warehouse |-> source_warehouse,
                               target_msg |-> target_warehouse],
                  candidates |-> candidates,
                  total_files |-> Len(candidates),
                  source_warehouse |-> source_warehouse,
                  target_warehouse |-> target_warehouse],
                 files, dirs, listing, opened)

\* the largest number of files that fail to open during one scan
MaxUnreadable == 2

ScanTags == {W_snowflake, W_bigquery, W_redshift, W_postgres, W_oracle, W_SNOWFLAKE}

UnreadableSets(S) == {U \in SUBSET S : Cardinality(U) <= MaxUnreadable}

DbtIdentify ==
    /\ op = "none"
    /\ \E source_warehouse \in ScanTags, target_warehouse \in {None, Some(W_bigquery)},
          unreadable \in UnreadableSets({f \in DOMAIN files : IsUnder(f, envRoot)}) :
       \E r \in {dbt_identify_translation_candidates(source_warehouse, target_warehouse,
                                                     unreadable)} :
         /\ args' = [source_warehouse |-> source_warehouse,
                     target_warehouse |-> target_warehouse,
                     unreadable |-> unreadable]
         /\ outcome' = r.outcome
         /\ result' = r.result
         /\ io' = r.io
    /\ op' = "dbt_identify_translation_candidates"
    /\ UNCHANGED <<envRoot, files, dirs, listing, before, history, procs>>

(***************************************************************************)
(* analyze_dbt_schema  (dbt_model_analyzer.py:41-72)                       *)
(***************************************************************************)
\* 'join'
N_join == <<"j", "o", "i", "n">>

\* ' on '
N_on == <<" ", "o", "n", " ">>

\* 'hub_'
N_hub == <<"h", "u", "b", "_">>

\* 'link_'
N_link == <<"l", "i", "n", "k", "_">>

\* 'sat_'
N_sat == <<"s", "a", "t", "_">>

\* 'dim_'
N_dim == <<"d", "i", "m", "_">>

\* 'fact_'
N_fact == <<"f", "a", "c", "t", "_">>

\* 'bridge_'
N_bridge == <<"b", "r", "i", "d", "g", "e", "_">>

\* 'snowflake_'
N_snowflake == <<"s", "n", "o", "w", "f", "l", "a", "k", "e", "_">>

\* any(tag in sql for tag in tags)
AnyIn(tags, sql) == \E tag \in tags : Contains(sql, tag)

\* lines 59-66 with the dim_/fact_ rule as an alternative to the join rule:
\* a file adds at most 1 to star_schema
FileScores_StarOnce(sql) ==
    [star_schema |-> IF (Contains(sql, N_join) /\ Contains(sql, N_on))
                        \/ AnyIn({N_dim, N_fact}, sql) THEN 1 ELSE 0,
     snowflake_schema |-> IF AnyIn({N_bridge, N_snowflake}, sql) THEN 1 ELSE 0,
     data_vault |-> IF AnyIn({N_hub, N_link, N_sat}, sql) THEN 1 ELSE 0]

\* lines 59-66 for the lower-cased text of one file: what it adds to each score
FileScores(sql) ==
    [star_schema |-> (IF Contains(sql, N_join) /\ Contains(sql, N_on) THEN 1 ELSE 0)
                     + (IF AnyIn({N_dim, N_fact}, sql) THEN 1 ELSE 0),
     snowflake_schema |-> IF AnyIn({N_bridge, N_snowflake}, sql) THEN 1 ELSE 0,
     data_vault |-> IF AnyIn({N_hub, N_link, N_sat}, sql) THEN 1 ELSE 0]

\* the patterns dictionary of lines 47-51
ZeroScores == [star_schema |-> 0, snowflake_schema |-> 0, data_vault |-> 0]

\* the keys of patterns in insertion order
PatternKeys == <<"star_schema", "snowflake_schema", "data_vault">>

\* lines 53-66 over the files os.walk yields, in order
RECURSIVE ScoreFiles(_, _)
ScoreFiles(paths, patterns) ==
    IF paths = <<>> THEN patterns
    ELSE LET add == FileScores(Lower(files[Head(paths)]))
         IN  ScoreFiles(Tail(paths),
                        [k \in DOMAIN patterns |-> patterns[k] + add[k]])

\* the last key with the largest value
MaxKey_Last(patterns) ==
    LET best == CHOOSE i \in 1..Len(PatternKeys) :
                  /\ \A j \in 1..Len(PatternKeys) :
                        patterns[PatternKeys[j]] <= patterns[PatternKeys[i]]
                  /\ \A j \in (i + 1)..Len(PatternKeys) :
                        patterns[PatternKeys[j]] < patterns[PatternKeys[i]]
    IN  PatternKeys[best]

\* max(patterns, key=patterns.get) (line 68): the first key with the largest value
MaxKey(patterns) ==
    LET best == CHOOSE i \in 1..Len(PatternKeys) :
                  /\ \A j \in 1..Len(PatternKeys) :
                        patterns[PatternKeys[j]] <= patterns[PatternKeys[i]]
                  /\ \A j \in 1..(i - 1) :
                        patterns[PatternKeys[j]] < patterns[PatternKeys[i]]
    IN  PatternKeys[best]

\* the first n files of a list that can be opened, and whether all can
RECURSIVE ReadableFiles(_, _)
ReadableFiles(paths, unreadable) ==
    IF paths = <<>> \/ Head(paths) \in unreadable THEN <<>>
    ELSE <<Head(paths)>> \o ReadableFiles(Tail(paths), unreadable)

\* analyze_dbt_schema(project_dir); unreadable: the files whose open() or
\* read() fails during the call.  open(path).read() (line 57) is in no try
\* block: the first file that cannot be read ends the call with its exception.
analyze_dbt_schema(project_dir, unreadable) ==
    LET dir == IF project_dir # None THEN project_dir[1] ELSE envRoot
        target_dir == OsResolve(PathJoin(PathJoin(dir, S_target), S_compiled))
        walked == SelectSeq(listing, LAMBDA f : IsUnder(f, target_dir)
                                                /\ EndsWith(PathName(f), DotSql))
        read == ReadableFiles(walked, unreadable)
        opened == <<Event("walk", target_dir)>>
                  \o [i \in 1..Len(read) |-> Event("read", read[i])]
    IN  IF Len(read) < Len(walked)
        THEN Run("raised", [exception |-> "OSError", raised_by |-> "open"],
                 files, dirs, listing,
                 Append(opened, Event("read", walked[Len(read) + 1])))
        ELSE LET patterns == ScoreFiles(walked, ZeroScores)
             IN  Run("returned",
                     [analysis |-> patterns,
                      likely_modeling_pattern |-> MaxKey(patterns)],
                     files, dirs, listing, opened)

AnalyzeDbtSchema ==
    /\ op = "none"
    /\ \E project_dir \in {None, Some(RootP), Some(RootQ)},
          unreadable \in UnreadableSets({f \in DOMAIN files : IsUnder(f, envRoot)}) :
       \E r \in {analyze_dbt_schema(project_dir, unreadable)} :
         /\ args' = [project_dir |-> project_dir, unreadable |-> unreadable]
         /\ outcome' = r.outcome
         /\ result' = r.result
         /\ io' = r.io
    /\ op' = "analyze_dbt_schema"
    /\ UNCHANGED <<envRoot, files, dirs, listing, before, history, procs>>

(***************************************************************************)
(* dbt_compile  (tools/dbt_compile.py:9-40)                                *)
(***************************************************************************)

\* lines the dbt process can print: two JSON events and one line that is no JSON
JsonLines == {"{e1}", "{e2}"}
OutputLines == JsonLines \cup {"not json"}

\* the longest standard output of a dbt process, in lines
MaxLines == 2

Streams(max) == UNION {[1..n -> OutputLines] : n \in 0..max}

\* lines 32-39: the lines json.loads accepts, stdout first; the others are dropped
ParseLogs(stdout, stderr) == SelectSeq(stdout \o stderr, LAMBDA line : line \in JsonLines)

\* dbt_compile(compile): proc is what subprocess.run returned
dbt_compile(compile, proc) ==
    Run("returned",
        [returncode |-> proc.returncode, logs |-> ParseLogs(proc.stdout, proc.stderr)],
        files, dirs, listing, <<Event("subprocess", envRoot)>>)

DbtCompile ==
    /\ op = "none"
    /\ \E proc \in [returncode : {0, 1}, stdout : Streams(MaxLines), stderr : Streams(1)] :
       \E r \in {dbt_compile(<<>>, proc)} :
         /\ args' = [compile |-> <<>>, proc |-> proc]
         /\ outcome' = r.outcome
         /\ result' = r.result
         /\ io' = r.io
    /\ op' = "dbt_compile"
    /\ UNCHANGED <<envRoot, files, dirs, listing, before, history, procs>>

Next == SearchForFiles \/ DbtTranslate \/ DbtIdentify \/ AnalyzeDbtSchema \/ DbtCompile

Spec == Init /\ [][Next]_vars

(***************************************************************************)
(* A session: an agent calls the tools several times in a row, and files   *)
(* of the project are added or removed between the calls.  Every call and  *)
(* every change is logged in history with the file system it found.        *)
(***************************************************************************)

\* Number of calls and file system changes of one session.
MaxCalls == 3

SessionTrees == {TreeCore, TreeBig}
SessionTerms == {T_users, T_u}
SessionPaths == {T_exact, T_cents}
SessionTags == {W_snowflake, W_postgres}

\* the files that are added or removed during a session
SessionPool == {F_users_snapshot}

SessionInit ==
    /\ envRoot = RootP
    /\ \E t \in SessionTrees :
         /\ files = [f \in t |-> SourceText(f)]
         /\ dirs = {RootP, RootQ} \cup UNION {Ancestors(f) : f \in t}
         /\ listing \in {SortedList(t), Reverse(SortedList(t))}
    /\ before = [files |-> files, dirs |-> dirs]
    /\ op = "none"
    /\ args = <<>>
    /\ outcome = "none"
    /\ result = <<>>
    /\ io = <<>>
    /\ history = <<>>
    /\ procs = <<>>

\* history with one more entry: the operation, its arguments and result, the
\* files and their enumeration order it found, and the files it left
Logged(o, a, r, after) ==
    Append(history, [op |-> o, args |-> a, result |-> r,
                     files |-> files, listing |-> listing, after |-> after])

\* one more call of _search_for_files
SearchAgain ==
    /\ Len(history) < MaxCalls
    /\ \E search_term \in SessionTerms :
       \E r \in {_search_for_files(envRoot, search_term)} :
         /\ args' = [dbt_root |-> envRoot, search_term |-> search_term]
         /\ result' = r
         /\ history' = Logged("_search_for_files", args', r, files)
    /\ op' = "_search_for_files"
    /\ outcome' = "returned"
    /\ io' = <<>>
    /\ before' = [files |-> files, dirs |-> dirs]
    /\ UNCHANGED <<envRoot, files, dirs, listing, procs>>

\* one more call of dbt_identify_translation_candidates
ScanAgain ==
    /\ Len(history) < MaxCalls
    /\ \E source_warehouse \in SessionTags, unreadable \in {{}} :
       \E r \in {dbt_identify_translation_candidates(source_warehouse, None, unreadable)} :
         /\ args' = [source_warehouse |-> source_warehouse,
                     target_warehouse |-> None,
                     unreadable |-> unreadable]
         /\ outcome' = r.outcome
         /\ result' = r.result
         /\ io' = r.io
         /\ history' = Logged("dbt_identify_translation_candidates", args', r.result, files)
    /\ op' = "dbt_identify_translation_candidates"
    /\ before' = [files |-> files, dirs |-> dirs]
    /\ UNCHANGED <<envRoot, files, dirs, listing, procs>>

\* one more call of dbt_translate, in which every step succeeds when reached
TranslateAgain ==
    /\ Len(history) < MaxCalls
    /\ \E file_path \in SessionPaths, text \in {Text1, Text2} :
       \E rs \in {Resolving(file_path)} :
       \E env \in {[read_fails |-> FALSE, collab_raises |-> FALSE,
                     collab_text |-> IF rs.kind = "Found" THEN Some(text) ELSE None,
                     mkdir_fails |-> FALSE, open_fails |-> FALSE,
                     write_fails |-> FALSE]} :
       \E r \in {dbt_translate(rs, file_path, W_snowflake, W_bigquery, env)} :
         /\ args' = [file_path |-> file_path,
                     source_warehouse |-> W_snowflake,
                     target_warehouse |-> W_bigquery,
                     env |-> env]
         /\ outcome' = r.outcome
         /\ result' = r.result
         /\ files' = r.files
         /\ dirs' = r.dirs
         /\ listing' = r.listing
         /\ io' = r.io
         /\ history' = Logged("dbt_translate", args', r.result, r.files)
    /\ op' = "dbt_translate"
    /\ before' = [files |-> files, dirs |-> dirs]
    /\ UNCHANGED <<envRoot, procs>>

\* a .sql file appears in the project between two calls, anywhere in the
\* enumeration order
AddFile ==
    /\ Len(history) < MaxCalls
    /\ \E f \in SessionPool \ DOMAIN files :
         /\ files' = [g \in DOMAIN files \cup {f} |->
                         IF g = f THEN SourceText(f) ELSE files[g]]
         /\ dirs' = dirs \cup Ancestors(f)
         /\ listing' \in {Append(listing, f), <<f>> \o listing}
         /\ args' = [file |-> f]
         /\ history' = Logged("file added", args', <<>>, files')
    /\ op' = "file added"
    /\ outcome' = "none"
    /\ result' = <<>>
    /\ io' = <<>>
    /\ before' = [files |-> files, dirs |-> dirs]
    /\ UNCHANGED <<envRoot, procs>>

\* a .sql file of the project is deleted between two calls
RemoveFile ==
    /\ Len(history) < MaxCalls
    /\ \E f \in SessionPool \cap DOMAIN files :
         /\ files' = [g \in DOMAIN files \ {f} |-> files[g]]
         /\ listing' = SelectSeq(listing, LAMBDA g : g # f)
         /\ args' = [file |-> f]
         /\ history' = Logged("file removed", args', <<>>, files')
    /\ op' = "file removed"
    /\ outcome' = "none"
    /\ result' = <<>>
    /\ io' = <<>>
    /\ before' = [files |-> files, dirs |-> dirs]
    /\ UNCHANGED <<envRoot, dirs, procs>>

SessionNext == SearchAgain \/ ScanAgain \/ TranslateAgain \/ AddFile \/ RemoveFile

SpecSession == SessionInit /\ [][SessionNext]_vars

(***************************************************************************)
(* Two invocations of dbt_translate that run at the same time for the same *)
(* source file and target warehouse.  Each is at a position of the code    *)
(* (pc); the steps of lines 131-205, 210, 214 and 215 of the two           *)
(* invocations interleave in every order.                                  *)
(***************************************************************************)
Invocations == {1, 2}

\* a third text of the collaborator, longer than Text1 and Text2
Text3 == <<"select", "if(", "unnest(", "x">>

RaceTexts == {Text1, Text2, Text3}

\* both requests name models/staging/stg_users.sql, by its path or by a term
\* that the resolver substitutes
RacePaths == {T_exact, T_stg_sql}

RaceInit ==
    /\ envRoot = RootP
    /\ files = [f \in TreeSingle |-> SourceText(f)]
    /\ dirs = {RootP, RootQ} \cup UNION {Ancestors(f) : f \in TreeSingle}
    /\ listing = SortedList(TreeSingle)
    /\ before = [files |-> files, dirs |-> dirs]
    /\ op = "dbt_translate"
    /\ args = <<>>
    /\ outcome = "none"
    /\ result = <<>>
    /\ io = <<>>
    /\ history = <<>>
    /\ procs = [p \in Invocations |->
                  [pc |-> "resolving", translated_file |-> <<>>,
                   translated_content |-> <<>>, offset |-> 0]]

\* lines 131-205 of invocation p: the source is found and read and the
\* collaborator returns a text
RaceDelegate(p) ==
    /\ procs[p].pc = "resolving"
    /\ \E file_path \in RacePaths, text \in RaceTexts :
       \E rs \in {Resolving(file_path)} :
         /\ rs.kind = "Found"
         /\ OsResolve(rs.source_file) \in DOMAIN files
         /\ procs' = [procs EXCEPT ![p] =
                        [pc |-> "mkdir",
                         translated_file |->
                            PathJoin(PathJoin(PathJoin(envRoot, S_translated), W_bigquery),
                                     rs.actual_file_path),
                         translated_content |-> text,
                         offset |-> 0]]
    /\ UNCHANGED <<envRoot, files, dirs, listing, before, op, args, outcome, result,
                   io, history>>

\* line 210 of invocation p: mkdir(parents=True, exist_ok=True)
RaceMkdir(p) ==
    /\ procs[p].pc = "mkdir"
    /\ dirs' = dirs \cup MkdirCreates(PathParent(procs[p].translated_file))
    /\ procs' = [procs EXCEPT ![p].pc = "open"]
    /\ UNCHANGED <<envRoot, files, listing, before, op, args, outcome, result, io,
                   history>>

\* line 214 of invocation p: open(translated_file, 'w') creates the file or
\* truncates it to length 0; the descriptor of p stands at offset 0
RaceOpen(p) ==
    /\ procs[p].pc = "open"
    /\ \E loc \in {OsResolve(procs[p].translated_file)} :
         /\ files' = [f \in DOMAIN files \cup {loc} |-> IF f = loc THEN <<>> ELSE files[f]]
         /\ listing' = ListingWith(loc)
    /\ procs' = [procs EXCEPT ![p].pc = "write", ![p].offset = 0]
    /\ UNCHANGED <<envRoot, dirs, before, op, args, outcome, result, io, history>>

\* the content of a file after data is written at an offset of it: the data
\* replaces what stood there, what stands behind the data stays
WriteAt(content, offset, data) ==
    LET end == offset + Len(data)
        size == IF Len(content) > end THEN Len(content) ELSE end
    IN  [i \in 1..size |->
            IF i > offset /\ i <= end THEN data[i - offset] ELSE content[i]]

\* line 215 of invocation p and the end of the with block: the text is
\* written at the offset of the descriptor of p and the file is closed
RaceWrite(p) ==
    /\ procs[p].pc = "write"
    /\ \E loc \in {OsResolve(procs[p].translated_file)} :
         files' = [files EXCEPT ![loc] =
                      WriteAt(files[loc], procs[p].offset, procs[p].translated_content)]
    /\ procs' = [procs EXCEPT ![p].pc = "done",
                              ![p].offset = Len(procs[p].translated_content)]
    /\ UNCHANGED <<envRoot, dirs, listing, before, op, args, outcome, result, io,
                   history>>

RaceNext ==
    \E p \in Invocations :
       RaceDelegate(p) \/ RaceMkdir(p) \/ RaceOpen(p) \/ RaceWrite(p)

SpecRace == RaceInit /\ [][RaceNext]_vars

(***************************************************************************)
(* Properties                                                              *)
(***************************************************************************)

Translated == op = "dbt_translate"
Returned == outcome = "returned"
Succeeded == Translated /\ Returned /\ result.status = "success"

\* the events of a kind in the I/O of the call
IoOf(kind) == {i \in 1..Len(io) : io[i].ev = kind}

\* the locations whose content or existence the call changed
ChangedFiles ==
    {f \in DOMAIN files : f \notin DOMAIN before.files \/ files[f] # before.files[f]}

ProjectPath(rel) == envRoot \o Slash \o rel

\* <project_root>/translated/<target_warehouse>
WarehouseSubtree(target_warehouse) ==
    envRoot \o Slash \o S_translated \o Slash \o target_warehouse

\* C1: every request that ends with status success wrote exactly the file
\* <project_root>/translated/<target_warehouse>/<resolved_relative_path>: that
\* location lies inside the translated/<target_warehouse>/ subtree, the source
\* that was read is <project_root>/<resolved_relative_path>, and saved_path
\* names the written file.
C1_OutputMirrorsSource ==
    Succeeded =>
        LET rel == result.message.actual_file_path
            expected == WarehouseSubtree(args.target_warehouse) \o Slash \o rel
            written == OsResolve(io[Len(io)].path)
        IN  /\ written = expected
            /\ IsUnder(written, WarehouseSubtree(args.target_warehouse))
            /\ OsResolve(result.source_file[1]) = ProjectPath(rel)
            /\ OsResolve(result.saved_path[1]) = written
            /\ ChangedFiles \subseteq {written}


\* the request reached the Persisting stage: the collaborator was called and
\* returned a text
Persisting ==
    /\ Translated
    /\ IoOf("translate") # {}
    /\ ~args.env.collab_raises
    /\ args.env.collab_text # None

PersistingFailed ==
    args.env.mkdir_fails \/ args.env.open_fails \/ args.env.write_fails

\* C2: once the collaborator has returned translated text, every failure of
\* the Persisting stage (creating the directories, opening or writing the
\* output file) ends in a returned record with status error, saved_path None
\* and translated_content equal to the collaborator's text; no exception
\* escapes dbt_translate.
C2_PersistFailureIsWriteError ==
    (Persisting /\ PersistingFailed) =>
        /\ outcome = "returned"
        /\ result.status = "error"
        /\ result.saved_path = None
        /\ result.translated_content = args.env.collab_text

\* the fixed set of dialect tags
WarehouseTags == {W_snowflake, W_bigquery, W_redshift, W_postgres}

\* C3: dbt_translate called with a source_warehouse or target_warehouse outside
\* {snowflake, bigquery, redshift, postgres} returns an error result without
\* reading the source file, without calling the translation collaborator and
\* without creating any directory or file.
C3_InvalidTagRejectedBeforeIo ==
    (Translated /\ (args.source_warehouse \notin WarehouseTags
                    \/ args.target_warehouse \notin WarehouseTags)) =>
        /\ outcome = "returned"
        /\ result.status = "error"
        /\ IoOf("read") = {} /\ IoOf("translate") = {}
        /\ IoOf("mkdir") = {} /\ IoOf("open") = {}
        /\ dirs = before.dirs
        /\ DOMAIN files = DOMAIN before.files

Searched == op = "_search_for_files"

\* the .sql files under models/, macros/, analyses/ and tests/ of the project
SearchedSqlFiles(fs) ==
    {f \in DOMAIN fs :
        /\ \E k \in 1..Len(search_dirs) : IsUnder(f, ProjectPath(search_dirs[k]))
        /\ EndsWith(PathName(f), DotSql)}

\* s without a trailing '.sql'
StripTrailingSql(s) ==
    IF EndsWith(s, DotSql) THEN SubSeq(s, 1, Len(s) - Len(DotSql)) ELSE s

\* the rule of C4 as claimed: T = the lower-cased term with a trailing '.sql'
\* stripped, S = the lower-cased stem; S = T, or T in S, or T in the relative path
ClaimedRule(term, rel) ==
    LET T == StripTrailingSql(Lower(term))
        S == Lower(PathStem(rel))
    IN  S = T \/ Contains(S, T) \/ Contains(rel, T)

\* the rule the code applies: T = the lower-cased term with every '.sql' taken
\* out, F = the same for the last path component of the term; F in S, or T in
\* S, or T in the lower-cased relative path
AmendedRule(term, rel) ==
    LET T == RemoveAll(Lower(term), DotSql)
        F == RemoveAll(Lower(PathName(term)), DotSql)
        S == Lower(PathStem(rel))
    IN  Contains(S, F) \/ Contains(S, T) \/ Contains(Lower(rel), T)

\* C4 (as claimed): a .sql file under the four directories is in the result of
\* _search_for_files if and only if S = T, T is a substring of S, or T is a
\* substring of the relative path, T being the lower-cased term with a
\* trailing '.sql' stripped; no other condition admits a file.
C4_ClaimedMatchRule ==
    Searched =>
        \A f \in SearchedSqlFiles(files) :
            RelativeTo(f, envRoot) \in Range(result)
                <=> ClaimedRule(args.search_term, RelativeTo(f, envRoot))

\* C4 (amended): a .sql file under the four directories of the project is in
\* the result if and only if F is a substring of S, T is a substring of S, or
\* T is a substring of the lower-cased relative path, where T is the
\* lower-cased term with every occurrence of '.sql' removed and F the
\* lower-cased last path component of the term with every '.sql' removed.
C4_MatchRule ==
    Searched =>
        \A f \in SearchedSqlFiles(files) :
            RelativeTo(f, envRoot) \in Range(result)
                <=> AmendedRule(args.search_term, RelativeTo(f, envRoot))

\* a search admitted a file that the claimed rule leaves out
C4_Witness ==
    /\ Searched
    /\ \E f \in SearchedSqlFiles(files) :
         /\ RelativeTo(f, envRoot) \in Range(result)
         /\ ~ClaimedRule(args.search_term, RelativeTo(f, envRoot))

\* <project_root>/<file_path> existed when dbt_translate was called
ExactPathExisted ==
    LET loc == OsResolve(PathJoin(envRoot, args.file_path))
    IN  loc \in DOMAIN before.files \/ loc \in before.dirs

\* the full match set of the resolver for the caller's file_path, on the tree
\* as it was when dbt_translate was called
MatchSet ==
    {RelativeTo(f, envRoot) :
        f \in {g \in SearchedSqlFiles(before.files) :
                  AmendedRule(args.file_path, RelativeTo(g, envRoot))}}

\* the request went on as Found with this path: the file read is
\* <project_root>/<path>, and a success reports it
ProceededAsFound(path) ==
    /\ Cardinality(IoOf("read")) = 1
    /\ \A i \in IoOf("read") : io[i].path = PathJoin(envRoot, path)
    /\ Succeeded => result.message.actual_file_path = path

\* C5: exactly one branch of the Resolving stage is taken, decided by (exact
\* path exists, number of resolver matches): an existing exact path is used
\* without invoking the resolver; otherwise zero matches return status error
\* with a message asking for the full path, exactly one match is substituted
\* and the request proceeds as Found with it, two or more return status
\* clarification_needed.  No result carries a saved path and a non-empty
\* suggestion list.
C5_ResolvingBranches ==
    Translated =>
        /\ ExactPathExisted <=> IoOf("walk") = {}
        /\ ExactPathExisted => ProceededAsFound(args.file_path)
        /\ (~ExactPathExisted /\ Cardinality(MatchSet) = 0) =>
              /\ Returned /\ result.status = "error" /\ IoOf("read") = {}
              /\ result.message.text = "File not found at '{file_path}'. No similar files found in the dbt project. Please provide the full path relative to the dbt project root."
              /\ result.message.file_path = args.file_path
        /\ (~ExactPathExisted /\ Cardinality(MatchSet) = 1) =>
              \A m \in MatchSet : ProceededAsFound(m)
        /\ (~ExactPathExisted /\ Cardinality(MatchSet) >= 2) =>
              /\ Returned /\ result.status = "clarification_needed"
              /\ IoOf("read") = {}
        /\ Returned =>
              ~(/\ result.saved_path # None
                /\ "suggestions" \in DOMAIN result
                /\ result.suggestions # <<>>)

\* a single match was substituted for a path that did not exist, and translated
C5_Witness ==
    /\ Succeeded
    /\ ~ExactPathExisted
    /\ result.original_path = Some(args.file_path)

Ambiguous == Translated /\ Returned /\ result.status = "clarification_needed"

\* C6: when dbt_translate ends Ambiguous with full match set M (|M| >= 2), the
\* suggestions are the first min(|M|, 10) elements of M in lexicographic
\* order, the message reports the untruncated count |M| and original_path is
\* the caller's file_path.
C6_AmbiguousSuggestions ==
    Ambiguous =>
        LET s == result.suggestions
        IN  /\ Cardinality(MatchSet) >= 2
            /\ Len(s) = (IF Cardinality(MatchSet) <= 10 THEN Cardinality(MatchSet) ELSE 10)
            /\ Range(s) \subseteq MatchSet
            /\ \A i, j \in 1..Len(s) : i < j => StrLess(s[i], s[j])
            /\ \A m \in MatchSet \ Range(s) : \A i \in 1..Len(s) : StrLess(s[i], m)
            /\ result.message.count = Cardinality(MatchSet)
            /\ result.message.suggestions_list = s
            /\ result.original_path = args.file_path

\* more matches than the suggestions shown
C6_Witness ==
    /\ Ambiguous
    /\ Cardinality(MatchSet) > 10
    /\ Len(result.suggestions) = 10

Identified == op = "dbt_identify_translation_candidates"

UnknownWarehouse ==
    /\ Returned
    /\ result.status = "error"
    /\ result.candidates = <<>>
    /\ io = <<>>

\* C7 (as claimed): for every tag not in {snowflake, bigquery, redshift,
\* postgres} dbt_identify_translation_candidates returns status error with an
\* empty candidates list before walking or reading any project file; for every
\* tag in the set it does not return that error.
C7_ClaimedUnknownWarehouse ==
    Identified =>
        /\ args.source_warehouse \notin WarehouseTags => UnknownWarehouse
        /\ args.source_warehouse \in WarehouseTags => ~UnknownWarehouse

\* C7 (amended): the tag is compared after lower-casing: every tag whose
\* lower-cased form is not in the set gets the UnknownWarehouse error, before
\* any project file is walked or read; every tag whose lower-cased form is in
\* the set does not.
C7_UnknownWarehouse ==
    Identified =>
        /\ Lower(args.source_warehouse) \notin WarehouseTags => UnknownWarehouse
        /\ Lower(args.source_warehouse) \in WarehouseTags =>
              Returned /\ result.status # "error"

\* the tag 'SNOWFLAKE', not itself in the set, was accepted and the scan found
\* candidates
C7_Witness ==
    /\ Identified
    /\ Returned
    /\ args.source_warehouse = W_SNOWFLAKE
    /\ args.source_warehouse \notin WarehouseTags
    /\ result.status = "success"
    /\ result.candidates # <<>>

StatusValues == {"success", "error", "clarification_needed"}

HasStatusAndMessage ==
    /\ "status" \in DOMAIN result
    /\ "message" \in DOMAIN result
    /\ result.status \in StatusValues

Analyzed == op = "analyze_dbt_schema"

\* the compiled .sql files the classification walks
CompiledSqlFiles ==
    LET dir == IF args.project_dir # None THEN args.project_dir[1] ELSE envRoot
    IN  {f \in DOMAIN files :
            /\ IsUnder(f, dir \o Slash \o S_target \o Slash \o S_compiled)
            /\ EndsWith(PathName(f), DotSql)}

\* C9: during analyze_dbt_schema a read failure on one compiled .sql file is
\* swallowed: the call returns scores and a guess instead of raising.
C9_ReadFailureSwallowed ==
    (Analyzed /\ CompiledSqlFiles \cap args.unreadable # {}) =>
        /\ outcome = "returned"
        /\ "analysis" \in DOMAIN result
        /\ "likely_modeling_pattern" \in DOMAIN result

\* the candidates a scan of the tree without the unreadable files yields
ScanWithout(unreadable) ==
    LET readable == SelectSeq(SqlFilesOf(envRoot, 1), LAMBDA f : f \notin unreadable)
    IN  SortByCount(ScanFiles(readable, envRoot,
                              WAREHOUSE_PATTERNS[Lower(args.source_warehouse)], {}))

\* C10: a file that cannot be read during a dialect scan is skipped: the
\* result has status success and its candidates are exactly those the tree
\* without the unreadable files yields, whichever files are unreadable.
C10_UnreadableSkipped ==
    (Identified /\ Lower(args.source_warehouse) \in WarehouseTags) =>
        /\ Returned
        /\ result.status = "success"
        /\ result.candidates = ScanWithout(args.unreadable)
        /\ \A i \in 1..Len(result.candidates) :
              result.candidates[i].full_path \notin args.unreadable

\* two files with warehouse syntax could not be read, a third one after them
\* in the traversal is reported
C10_Witness ==
    /\ Identified
    /\ Returned
    /\ result.status = "success"
    /\ result.candidates # <<>>
    /\ Cardinality(args.unreadable) = 2
    /\ \A u \in args.unreadable :
          /\ u \in Range(SqlFilesOf(envRoot, 1))
          /\ \E c \in Range(ScanWithout({})) : c.full_path = u
          /\ \E i, j \in 1..Len(listing) :
                /\ i < j /\ listing[i] = u
                /\ \E c \in Range(result.candidates) : c.full_path = listing[j]

DeclaredLabels == <<"star_schema", "snowflake_schema", "data_vault">>

\* C11: analyze_dbt_schema returns as its guess the label with the maximum
\* score, ties going to the first label in the declared order star_schema,
\* snowflake_schema, data_vault; when the compiled directory is missing or
\* holds no .sql file the call returns normally with all three scores 0 and
\* the guess star_schema.
C11_GuessIsFirstMaximum ==
    Analyzed =>
        /\ outcome = "returned" =>
              \E i \in 1..3 :
                 /\ result.likely_modeling_pattern = DeclaredLabels[i]
                 /\ \A j \in 1..3 : result.analysis[DeclaredLabels[j]]
                                       <= result.analysis[DeclaredLabels[i]]
                 /\ \A j \in 1..(i - 1) : result.analysis[DeclaredLabels[j]]
                                             < result.analysis[DeclaredLabels[i]]
        /\ CompiledSqlFiles = {} =>
              /\ outcome = "returned"
              /\ result.analysis = [star_schema |-> 0, snowflake_schema |-> 0,
                                    data_vault |-> 0]
              /\ result.likely_modeling_pattern = "star_schema"

\* snowflake_schema and data_vault tie above star_schema, and the guess is
\* snowflake_schema
C11_Witness ==
    /\ Analyzed
    /\ outcome = "returned"
    /\ result.analysis.snowflake_schema = result.analysis.data_vault
    /\ result.analysis.snowflake_schema > result.analysis.star_schema
    /\ result.likely_modeling_pattern = "snowflake_schema"

\* the number of compiled .sql files whose lower-cased text satisfies P
CountCompiled(P(_)) ==
    Cardinality({f \in CompiledSqlFiles : P(Lower(files[f]))})

HasJoinOn(sql) == Contains(sql, <<"j", "o", "i", "n">>) /\ Contains(sql, <<" ", "o", "n", " ">>)
HasDimFact(sql) == Contains(sql, <<"d", "i", "m", "_">>) \/ Contains(sql, <<"f", "a", "c", "t", "_">>)
HasVault(sql) ==
    \/ Contains(sql, <<"h", "u", "b", "_">>)
    \/ Contains(sql, <<"l", "i", "n", "k", "_">>)
    \/ Contains(sql, <<"s", "a", "t", "_">>)
HasBridge(sql) ==
    \/ Contains(sql, <<"b", "r", "i", "d", "g", "e", "_">>)
    \/ Contains(sql, <<"s", "n", "o", "w", "f", "l", "a", "k", "e", "_">>)

\* C12: after analyze_dbt_schema has scanned the compiled .sql files,
\* star_schema = (files containing 'join' and ' on ') + (files containing
\* 'dim_' or 'fact_'), data_vault = files containing 'hub_', 'link_' or
\* 'sat_', snowflake_schema = files containing 'bridge_' or 'snowflake_', all
\* on the lower-cased text; a file adds at most 2 to star_schema and at most
\* 1 to each other score.
C12_ScoresCountFiles ==
    (Analyzed /\ outcome = "returned") =>
        /\ result.analysis.star_schema
              = CountCompiled(HasJoinOn) + CountCompiled(HasDimFact)
        /\ result.analysis.data_vault = CountCompiled(HasVault)
        /\ result.analysis.snowflake_schema = CountCompiled(HasBridge)
        /\ result.analysis.star_schema <= 2 * Cardinality(CompiledSqlFiles)
        /\ result.analysis.data_vault <= Cardinality(CompiledSqlFiles)
        /\ result.analysis.snowflake_schema <= Cardinality(CompiledSqlFiles)

\* one file counted twice for star_schema, another once, through upper-case
\* text
C12_Witness ==
    /\ Analyzed
    /\ outcome = "returned"
    /\ \E f \in CompiledSqlFiles : HasJoinOn(Lower(files[f])) /\ HasDimFact(Lower(files[f]))
    /\ \E f \in CompiledSqlFiles : files[f] # Lower(files[f]) /\ ~HasDimFact(files[f])
                                      /\ HasDimFact(Lower(files[f]))
    /\ result.analysis.star_schema = 3

\* C14: for every candidate returned by dbt_identify_translation_candidates,
\* pattern_count equals the number of distinct labels in detected_syntax and
\* is at least 1; a .sql file of the four directories that could be read is a
\* candidate (once) if and only if at least one rule of the selected
\* warehouse matches its text.
C14_CountIsLabelCount ==
    (Identified /\ Returned /\ result.status = "success") =>
        LET cands == result.candidates
            rules == WAREHOUSE_PATTERNS[Lower(args.source_warehouse)]
        IN  /\ \A i \in 1..Len(cands) :
                  /\ cands[i].pattern_count = Cardinality(cands[i].detected_syntax)
                  /\ cands[i].pattern_count >= 1
                  /\ cands[i].full_path \in SearchedSqlFiles(files)
                  /\ \A j \in 1..Len(cands) :
                        cands[j].full_path = cands[i].full_path => i = j
            /\ \A f \in SearchedSqlFiles(files) \ args.unreadable :
                  (\E i \in 1..Len(cands) : cands[i].full_path = f)
                     <=> (\E k \in 1..Len(rules) : PatternSearch(rules[k], files[f]))

\* a candidate matched by several rules next to a scanned file that no rule
\* matches
C14_Witness ==
    /\ Identified
    /\ Returned
    /\ result.status = "success"
    /\ \E i \in 1..Len(result.candidates) : result.candidates[i].pattern_count >= 2
    /\ \E f \in SearchedSqlFiles(files) \ args.unreadable :
          \A i \in 1..Len(result.candidates) : result.candidates[i].full_path # f

Scans == {i \in 1..Len(history) :
             /\ history[i].op = "dbt_identify_translation_candidates"
             /\ history[i].result.status = "success"}

\* the directory of search_dirs a scanned file lies under, by its position
DirIndex(f) == CHOOSE k \in 1..Len(search_dirs) : IsUnder(f, ProjectPath(search_dirs[k]))

ListIndex(l, f) == CHOOSE i \in 1..Len(l) : l[i] = f

\* the traversal (models, macros, analyses, tests, each in the enumeration
\* order l of the file system) visits f before g
VisitedBefore(l, f, g) ==
    \/ DirIndex(f) < DirIndex(g)
    \/ DirIndex(f) = DirIndex(g) /\ ListIndex(l, f) < ListIndex(l, g)

\* C13: the candidates of dbt_identify_translation_candidates are ordered by
\* pattern_count descending, two candidates with equal pattern_count stand in
\* the order in which the traversal visited them, and scans of an unchanged
\* tree with the same arguments give the same list.
C13_StableCandidateOrder ==
    \A i \in Scans :
       LET h == history[i]
           cands == h.result.candidates
       IN  /\ \A a, b \in 1..Len(cands) :
                 a < b =>
                    /\ cands[a].pattern_count >= cands[b].pattern_count
                    /\ cands[a].pattern_count = cands[b].pattern_count
                          => VisitedBefore(h.listing, cands[a].full_path, cands[b].full_path)
           /\ \A j \in Scans :
                 (/\ history[j].args = h.args
                  /\ history[j].files = h.files
                  /\ history[j].listing = h.listing)
                    => history[j].result.candidates = cands

\* two scans of the same tree, whose candidates hold a tie inside one
\* directory where the enumeration order is not the alphabetical one
C13_Witness ==
    \E i, j \in Scans :
       /\ i < j
       /\ history[j].args = history[i].args
       /\ history[j].files = history[i].files
       /\ history[j].listing = history[i].listing
       /\ \E a, b \in 1..Len(history[i].result.candidates) :
             LET ca == history[i].result.candidates[a]
                 cb == history[i].result.candidates[b]
             IN  /\ a < b
                 /\ ca.pattern_count = cb.pattern_count
                 /\ DirIndex(ca.full_path) = DirIndex(cb.full_path)
                 /\ StrLess(cb.full_path, ca.full_path)

Searches == {i \in 1..Len(history) : history[i].op = "_search_for_files"}

\* the relative paths of the .sql files of the four directories of a file
\* system fs that the match rule admits for a term
MatchesIn(fs, term) ==
    {RelativeTo(f, envRoot) :
        f \in {g \in SearchedSqlFiles(fs) : AmendedRule(term, RelativeTo(g, envRoot))}}

\* C15: _search_for_files returns a list without duplicates in strictly
\* ascending lexicographic order; two calls with the same term and no file
\* system change in between return identical lists, and a call made after a
\* file is added or removed returns the matches of the new tree.
C15_SearchIsPure ==
    \A i \in Searches :
       LET h == history[i]
       IN  /\ \A a, b \in 1..Len(h.result) : a < b => StrLess(h.result[a], h.result[b])
           /\ Range(h.result) = MatchesIn(h.files, h.args.search_term)
           /\ \A j \in Searches :
                 (history[j].args.search_term = h.args.search_term
                    /\ history[j].files = h.files)
                    => history[j].result = h.result

SessionChanges == {i \in 1..Len(history) : history[i].op \in {"file added", "file removed"}}

\* the same term searched before and after a file system change, with
\* different results
C15_Witness ==
    \E i, j \in Searches :
       /\ i < j
       /\ history[i].args.search_term = history[j].args.search_term
       /\ \E k \in SessionChanges : i < k /\ k < j
       /\ history[i].result # history[j].result
       /\ Len(history[j].result) >= 2

Translations == {i \in 1..Len(history) :
                    /\ history[i].op = "dbt_translate"
                    /\ history[i].result.status = "success"}

\* the location the i-th call of the session reports as saved
OutputOf(i) == OsResolve(history[i].result.saved_path[1])

\* the text the collaborator returned in the i-th call of the session
TextOf(i) == history[i].args.env.collab_text[1]

SameRequest(i, j) ==
    /\ history[i].args.file_path = history[j].args.file_path
    /\ history[i].args.target_warehouse = history[j].args.target_warehouse

\* C16: re-running the same translation replaces the prior output: after any
\* sequence of successful runs the output path holds exactly the text the
\* collaborator returned in the latest run, a run changes no other file,
\* and a repeated run adds no file next to the output of the earlier run.
C16_RerunReplacesOutput ==
    \A i \in Translations :
       LET h == history[i]
       IN  /\ OutputOf(i) \in DOMAIN h.after
           /\ h.after[OutputOf(i)] = TextOf(i)
           /\ DOMAIN h.after = DOMAIN h.files \cup {OutputOf(i)}
           /\ \A f \in DOMAIN h.files : f # OutputOf(i) => h.after[f] = h.files[f]
           /\ \A j \in Translations :
                 (j < i /\ SameRequest(i, j)) =>
                    /\ OutputOf(j) = OutputOf(i)
                    /\ DOMAIN h.after = DOMAIN h.files
           /\ (\A j \in Translations : j > i => OutputOf(j) # OutputOf(i))
                 => files[OutputOf(i)] = TextOf(i)

\* the same translation ran twice, the collaborator returning a shorter text
\* the second time
C16_Witness ==
    \E i, j \in Translations :
       /\ i < j
       /\ SameRequest(i, j)
       /\ history[i].result.original_path # None
       /\ Len(TextOf(j)) < Len(TextOf(i))
       /\ files[OutputOf(j)] = TextOf(j)

RaceDone == procs # <<>> /\ \A p \in Invocations : procs[p].pc = "done"

\* C17: when two dbt_translate invocations run concurrently and write the
\* same output path, under every interleaving of their open and write steps
\* the final content of the file is the complete translated text of one of
\* the two invocations, never a mixture of both.
C17_LastWriterWins ==
    RaceDone =>
        /\ procs[1].translated_file = procs[2].translated_file
        /\ \E p \in Invocations :
              files[OsResolve(procs[p].translated_file)] = procs[p].translated_content

\* the terminal state a returned record stands for
TerminalStates ==
    {k \in {"Saved", "WriteError", "TranslateError", "ReadError", "NotFound", "Ambiguous"} :
        /\ Returned
        /\ CASE k = "Saved" -> result.status = "success"
             [] k = "Ambiguous" -> result.status = "clarification_needed"
             [] k = "WriteError" ->
                   /\ result.status = "error"
                   /\ result.message.text = "Error writing translated file: {str(e)}"
             [] k = "TranslateError" ->
                   /\ result.status = "error"
                   /\ result.message.text = "Error during translation: {str(e)}"
             [] k = "ReadError" ->
                   /\ result.status = "error"
                   /\ result.message.text = "Error reading file: {str(e)}"
             [] k = "NotFound" ->
                   /\ result.status = "error"
                   /\ "suggestions" \in DOMAIN result
                   /\ result.suggestions = <<>>}

\* the stages of one run occur in the order Resolving, Reading, Delegating,
\* Persisting and stop at the first failure
StagesInOrder ==
    /\ \A i \in IoOf("read") :
          /\ \A j \in IoOf("exists") \cup IoOf("walk") : j < i
          /\ TerminalStates \cap {"NotFound", "Ambiguous"} = {}
    /\ Cardinality(IoOf("read")) <= 1
    /\ Cardinality(IoOf("translate")) <= 1
    /\ \A i \in IoOf("translate") :
          /\ \E j \in IoOf("read") :
                /\ j < i
                /\ OsResolve(io[j].path) \in DOMAIN before.files
          /\ ~args.env.read_fails
    /\ \A i \in IoOf("mkdir") \cup IoOf("open") \cup IoOf("write") :
          /\ \E j \in IoOf("translate") : j < i
          /\ ~args.env.collab_raises
    /\ (files # before.files \/ dirs # before.dirs) =>
          /\ IoOf("translate") # {}
          /\ ~args.env.collab_raises
    /\ TerminalStates \cap {"NotFound", "Ambiguous", "ReadError", "TranslateError"} # {} =>
          /\ files = before.files
          /\ dirs = before.dirs
          /\ IoOf("mkdir") \cup IoOf("open") \cup IoOf("write") = {}
          /\ \A i \in IoOf("translate") : i = Len(io) /\ args.env.collab_raises

\* C18: in every run of dbt_translate the stages occur in the order
\* Resolving, Reading, Delegating, Persisting and stop at the first failure
\* (the source is read only after Found, the collaborator is called at most
\* once and only after a successful read, nothing under translated/ is
\* created before the collaborator returned, a run that ends NotFound,
\* Ambiguous, ReadError or TranslateError has written nothing), and every
\* run ends in exactly one of the six terminal states.
C18_StagesAndTerminalStates ==
    Translated =>
        /\ StagesInOrder
        /\ Cardinality(TerminalStates) = 1

\* C19: dbt_translate never modifies its input: after any call, whatever the
\* arguments and the outcome, the source file that was read and every other
\* file under models/, macros/, analyses/ and tests/ hold what they held
\* before the call, and a file that was created or changed lies under
\* <project_root>/translated/.
C19_InputUntouched ==
    Translated =>
        /\ \A i \in IoOf("read") :
              OsResolve(io[i].path) \in DOMAIN before.files =>
                 /\ OsResolve(io[i].path) \in DOMAIN files
                 /\ files[OsResolve(io[i].path)] = before.files[OsResolve(io[i].path)]
        /\ \A f \in SearchedSqlFiles(before.files) :
              f \in DOMAIN files /\ files[f] = before.files[f]
        /\ \A f \in ChangedFiles : IsUnder(f, ProjectPath(S_translated))

\* the relative paths of the .sql files under the four directories of root
\* that the match rule admits for a term
MatchesUnder(root, term) ==
    {RelativeTo(f, root) :
        f \in {g \in DOMAIN files :
                  /\ \E k \in 1..Len(search_dirs) :
                        IsUnder(g, root \o Slash \o search_dirs[k])
                  /\ EndsWith(PathName(g), DotSql)
                  /\ AmendedRule(term, RelativeTo(g, root))}}

\* C20: the result of _search_for_files(dbt_root, term) is determined by its
\* dbt_root argument and the file system: every returned path is relative to
\* dbt_root and names a file under dbt_root/{models,macros,analyses,tests},
\* a call returns the matches of the tree at its own dbt_root, and the path
\* dbt_translate reads after a single match is a file the resolver found.
C20_ResultFollowsDbtRoot ==
    /\ Searched =>
          /\ \A i \in 1..Len(result) :
                /\ PathJoin(args.dbt_root, result[i]) \in DOMAIN files
                /\ \E k \in 1..Len(search_dirs) :
                      IsUnder(PathJoin(args.dbt_root, result[i]),
                              args.dbt_root \o Slash \o search_dirs[k])
          /\ Range(result) = MatchesUnder(args.dbt_root, args.search_term)
    /\ (Translated /\ ~ExactPathExisted /\ Cardinality(MatchSet) = 1) =>
          \A i \in IoOf("read") : OsResolve(io[i].path) \in SearchedSqlFiles(before.files)

=============================================================================
